---- MODULE Spec2Model ----
(***************************************************************************)
(* Model of the form-management backend (apps/forms, apps/notifications,   *)
(* apps/users): templates, submissions, the submission request handlers,   *)
(* the schema-driven validation of submitted data, the notification tasks  *)
(* and endpoints, and the bearer-token authentication.  The database rows  *)
(* are the state; every request handler is one action, and so is every     *)
(* Celery task, except send_email_notification, whose runs interleave      *)
(* between its read, its send and its save.  The handlers whose requests   *)
(* race with each other or with cleanup_old_drafts are modelled a second   *)
(* time, one action per database query, for the runs that interleave.      *)
(***************************************************************************)
EXTENDS Integers, Sequences, FiniteSets, TLC

\* ------------------------------------------------------------------ bounds
MaxSubs == 2        \* submissions created in one behaviour of SpecMulti
MaxLifeSubs == 1    \* submissions created in one behaviour of Spec
MaxTemplates == 2   \* templates created in one behaviour of SpecMulti
MaxLifeTemplates == 1   \* templates created in one behaviour of Spec
MaxTime == 1        \* the clock runs over 0..MaxTime
MaxVersion == 2     \* template versions stay within 1..MaxVersion; SpecEdit
                    \* takes no request for a template with that many
                    \* schema changes
MaxWorkers == 2     \* concurrent runs of send_email_notification
MaxCallers == 2     \* requests that are in flight at the same time
MaxEnqueued == 2    \* SpecPatch takes no request for a submission with
                    \* that many notification tasks in the queue

\* --------------------------------------------------------------- constants
NoTime == -1        \* a null DateTimeField
NoUser == "none"    \* a null ForeignKey to User
ABSENT == "absent"  \* a key that the request body does not carry
DraftRetention == 30    \* timedelta(days=30); the clock counts days

Users == {"u_admin", "u_client"}
UserOrder == <<"u_admin", "u_client">>
TemplateIds == 1..MaxTemplates

STATUS_CHOICES == {"draft", "submitted", "reviewed", "approved", "rejected"}

FIELD_TYPES == {"text", "textarea", "number", "email", "phone", "date",
                "datetime", "select", "multiselect", "checkbox", "radio",
                "file", "files", "richtext", "rating", "slider", "address",
                "signature"}

\* ------------------------------------------------------------- JSON values
\* A JSON value of the data mapping: null, a string, a number or a list of
\* strings.  All values have one record shape.
Null == [kind |-> "null", s |-> "", n |-> 0, items |-> <<>>]
Str(x) == [kind |-> "str", s |-> x, n |-> 0, items |-> <<>>]
Num(x) == [kind |-> "num", s |-> "", n |-> x, items |-> <<>>]
List(xs) == [kind |-> "list", s |-> "", n |-> 0, items |-> xs]

\* dict.get(key): the value, or None when the key is missing.
DictGet(data, key) == IF key \in DOMAIN data THEN data[key] ELSE Null

\* The strings of the model that Python's float() parses to a finite number,
\* with their value.
FloatOfStr == ("5" :> 5) @@ ("12" :> 12) @@ ("-1" :> -1)

\* The strings that float() parses to the IEEE not-a-number.
NanStrings == {"nan", "NaN"}

\* float(value): ok is FALSE for a ValueError or TypeError, nan is TRUE when
\* the result is the not-a-number, n is the value otherwise.
ParseFloat(v) ==
    IF v.kind = "num" THEN [ok |-> TRUE, nan |-> FALSE, n |-> v.n]
    ELSE IF v.kind = "str" /\ v.s \in DOMAIN FloatOfStr
         THEN [ok |-> TRUE, nan |-> FALSE, n |-> FloatOfStr[v.s]]
    ELSE IF v.kind = "str" /\ v.s \in NanStrings
         THEN [ok |-> TRUE, nan |-> TRUE, n |-> 0]
    ELSE [ok |-> FALSE, nan |-> FALSE, n |-> 0]

\* a < b on floats: every comparison with the not-a-number is False.
FloatLess(a_nan, a, b) == ~a_nan /\ a < b

\* str(value) for the scalar values of the model.
PyStr(v) ==
    IF v.kind = "str" THEN v.s
    ELSE IF v.kind = "num" THEN (IF v.n = 5 THEN "5" ELSE IF v.n = 12 THEN "12"
                                 ELSE IF v.n = -1 THEN "-1" ELSE "0")
    ELSE "[]"

ValidEmails == {"a@b.co"}
ValidPhones == {"5", "12"}          \* ^[\+]?[1-9][\d]{0,15}$
ValidDates == {"2024-01-31"}        \* strptime '%Y-%m-%d'
ValidDatetimes == {"2024-01-31", "2024-01-31T10:00:00Z"}

SeqToSet(sq) == {sq[i] : i \in 1..Len(sq)}

\* ----------------------------------------------------------- field schemas
\* A field descriptor.  has_config / has_min / has_max say whether the keys
\* 'config', 'min' and 'max' are present.
Field(nm, ty, req, opts, hasMin, mn, hasMax, mx) ==
    [name |-> nm, type |-> ty, required |-> req, options |-> opts,
     has_config |-> hasMin \/ hasMax,
     has_min |-> hasMin, min |-> mn, has_max |-> hasMax, max |-> mx]

F_name == Field("full_name", "text", TRUE, <<>>, FALSE, 0, FALSE, 0)
F_age == Field("age", "number", FALSE, <<>>, TRUE, 0, TRUE, 9)
F_tags == Field("tags", "multiselect", TRUE, <<"x", "y">>, FALSE, 0, FALSE, 0)
F_dup == Field("full_name", "number", FALSE, <<>>, FALSE, 0, FALSE, 0)
F_badtype == Field("age", "colour", FALSE, <<>>, FALSE, 0, FALSE, 0)
F_noopts == Field("tags", "select", FALSE, <<>>, FALSE, 0, FALSE, 0)

\* A schema: has_fields says whether the key 'fields' is present.
Schema(fs) == [has_fields |-> TRUE, fields |-> fs]
DefaultSchema == [has_fields |-> FALSE, fields |-> <<>>]   \* default=dict

\* FormTemplateSerializer.validate_schema: TRUE when the schema is accepted.
validate_schema(value) ==
    LET fields == IF value.has_fields THEN value.fields ELSE <<>> IN
    /\ Len(fields) # 0
    /\ \A i \in 1..Len(fields) :
         /\ \A j \in 1..(i - 1) : fields[j].name # fields[i].name
         /\ fields[i].type \in FIELD_TYPES
         /\ fields[i].type \in {"select", "multiselect", "radio"}
               => Len(fields[i].options) # 0

\* FormSubmissionCreateSerializer.get_field_config: index of the first field
\* with that name, 0 for None.
get_field_config(fields, field_name) ==
    IF \E i \in 1..Len(fields) : fields[i].name = field_name
    THEN CHOOSE i \in 1..Len(fields) :
            /\ fields[i].name = field_name
            /\ \A j \in 1..(i - 1) : fields[j].name # field_name
    ELSE 0

\* FormSubmissionCreateSerializer.validate_field_value: "" when the value
\* passes, else the error message.
validate_field_value(field_config, value) ==
    IF value.kind = "null" \/ (value.kind = "str" /\ value.s = "") THEN ""
    ELSE IF field_config.type = "number" THEN
        LET p == ParseFloat(value) IN
        IF ~p.ok THEN "must be a number"
        ELSE IF field_config.has_config /\ field_config.has_min
                /\ FloatLess(p.nan, p.n, field_config.min)
             THEN "must be at least"
        ELSE IF field_config.has_config /\ field_config.has_max
                /\ FloatLess(p.nan, field_config.max, p.n)
             THEN "must be at most"
        ELSE ""
    ELSE IF field_config.type = "email" THEN
        IF value.kind = "str" /\ value.s \in ValidEmails THEN ""
        ELSE "must be a valid email"
    ELSE IF field_config.type = "phone" THEN
        IF value.kind # "list" /\ PyStr(value) \in ValidPhones THEN ""
        ELSE "must be a valid phone number"
    ELSE IF field_config.type \in {"select", "radio"} THEN
        IF value.kind = "str" /\ value.s \in SeqToSet(field_config.options)
        THEN "" ELSE "contains invalid selection"
    ELSE IF field_config.type = "multiselect" THEN
        IF value.kind # "list" THEN "must be a list of values"
        ELSE IF \E i \in 1..Len(value.items) :
                   value.items[i] \notin SeqToSet(field_config.options)
             THEN "contains invalid selection" ELSE ""
    ELSE IF field_config.type = "date" THEN
        IF PyStr(value) \in ValidDates THEN ""
        ELSE "must be a valid date"
    ELSE IF field_config.type = "datetime" THEN
        IF PyStr(value) \in ValidDatetimes THEN ""
        ELSE "must be a valid datetime"
    ELSE ""

\* Mutant of IsEmptyValue: the empty list counts as filled.
IsEmptyValue_NoList(field_value) ==
    \/ field_value.kind = "null"
    \/ field_value.kind = "str" /\ field_value.s = ""

\* The test of the required-field loop: the value counts as not filled.
IsEmptyValue(field_value) ==
    \/ field_value.kind = "null"
    \/ field_value.kind = "str" /\ field_value.s = ""
    \/ field_value.kind = "list" /\ Len(field_value.items) = 0

\* Index of the first required field whose value is not filled, 0 if none.
FirstMissingRequired(fields, data) ==
    LET missing == {i \in 1..Len(fields) :
                      fields[i].required
                      /\ IsEmptyValue(DictGet(data, fields[i].name))} IN
    IF missing = {} THEN 0
    ELSE CHOOSE i \in missing : \A j \in missing : i <= j

\* FormSubmissionCreateSerializer.validate_form_data: the mapping from field
\* name to error message that the raised ValidationError carries; the empty
\* mapping when nothing is raised.
validate_form_data(schema, data) ==
    IF ~schema.has_fields THEN <<>>
    ELSE
      LET fields == schema.fields
          m == FirstMissingRequired(fields, data) IN
      IF m # 0 THEN (fields[m].name :> "is required")
      ELSE
        LET bad == {k \in DOMAIN data :
                      /\ get_field_config(fields, k) # 0
                      /\ validate_field_value(
                            fields[get_field_config(fields, k)], data[k]) # ""}
        IN [k \in bad |->
              validate_field_value(fields[get_field_config(fields, k)], data[k])]

\* ------------------------------------------------------------------- state
VARIABLES
    role,           \* User.role of every user
    templates,      \* FormTemplate rows, by id 1..Len(templates)
    subs,           \* FormSubmission rows, by id
    nextSid,        \* the id the next stored submission gets
    now,            \* timezone.now()
    taskQueue,      \* pending send_form_submission_notification tasks, per id
    notifications,  \* Notification rows, by id 1..Len(notifications)
    emailQueue,     \* notification ids handed to send_email_notification.delay
    response,       \* the HTTP status code of the last request
    brokerUp,       \* whether .delay() reaches the task broker
    mailUp,         \* whether email.send() reaches the mail server
    workers,        \* the position of every send_email_notification run
    outbox,         \* the number of emails sent, by notification id
    removed,        \* ids of the Notification rows that were deleted
    accounts,       \* User rows created by ClerkAuthentication
    auth,           \* the outcome of the last ClerkAuthentication.authenticate
    sweep,          \* the position of the cleanup_old_drafts run
    calls,          \* the position of every request that runs query by query
    schemaChanges   \* history: updates that changed the stored schema, by id

vars == <<role, templates, subs, nextSid, now, taskQueue, notifications,
          emailQueue, response, brokerUp, mailUp, workers, outbox, removed,
          accounts, auth, sweep, calls, schemaChanges>>

\* The state outside the forms tables: left alone by the forms handlers.
sideVars == <<brokerUp, mailUp, workers, outbox, removed, accounts, auth,
              sweep, calls>>

\* ---------------------------------------------------------- request inputs
S1 == Schema(<<F_name>>)
S2 == Schema(<<F_name, F_age>>)

D_absent == <<>>
D_null == ("full_name" :> Null)
D_blank == ("full_name" :> Str(""))
D_nolist == ("full_name" :> List(<<>>))
D_ok == ("full_name" :> Str("Ann"))
D_badage == ("full_name" :> Str("Ann")) @@ ("age" :> Str("abc"))
D_tags == ("tags" :> List(<<"x">>))
D_notags == ("tags" :> List(<<>>)) @@ ("age" :> Num(5))
D_both == ("full_name" :> Str("")) @@ ("age" :> Num(12))
D_nan == ("age" :> Str("nan"))
D_low == ("age" :> Str("-1"))
D_min == ("age" :> Num(0))
D_max == ("age" :> Num(9))

\* Bodies of POST and PATCH /templates/ (the writable fields of
\* FormTemplateSerializer that the model keeps).
TemplateRequests(schemas, allows) ==
    {[has_schema |-> s[1], schema |-> s[2], has_allow |-> a[1],
      allow_multiple_submissions |-> a[2],
      has_status |-> FALSE, status |-> "draft"] :
        s \in {<<FALSE, DefaultSchema>>} \cup ({TRUE} \X schemas),
        a \in {<<FALSE, FALSE>>} \cup ({TRUE} \X allows)}

\* The same bodies, with a value for 'status'.
StatusRequests(reqs, statuses) ==
    {[r EXCEPT !.has_status = TRUE, !.status = st] :
        r \in reqs, st \in statuses}

\* The same bodies, with or without a value for the read-only 'version'.
VersionedRequests(reqs, versions) ==
    {r @@ [has_version |-> v[1], version |-> v[2]] :
        r \in reqs, v \in {<<FALSE, 0>>} \cup ({TRUE} \X versions)}

\* Bodies of POST /submissions/ (FormSubmissionCreateSerializer.Meta.fields).
CreateRequests(tids, datas, statuses) ==
    [form_template : tids, data : datas, status : statuses]

\* Bodies of PATCH /submissions/<id>/ (the writable fields of
\* FormSubmissionSerializer); form_template 0 and status ABSENT stand for a
\* missing key, has_data and has_review for the presence of the others.
UpdateRequests(tids, datas, statuses, reviewers) ==
    {[form_template |-> t, has_data |-> d[1], data |-> d[2], status |-> st,
      has_review |-> r[1], reviewed_by |-> r[2], reviewed_at |-> now] :
        t \in tids \cup {0},
        d \in {<<FALSE, D_absent>>} \cup ({TRUE} \X datas),
        st \in statuses,
        r \in {<<FALSE, NoUser>>} \cup ({TRUE} \X reviewers)}

\* -------------------------------------------------------------------- Init
\* The processes that run send_email_notification, and one at rest.
Workers == 1..MaxWorkers
Idle == [pc |-> "idle", nid |-> 0]

\* No authenticate call has been made yet.
NoAuth == [outcome |-> "none", user |-> 0]

\* cleanup_old_drafts is not running.
NoSweep == [pc |-> "idle", ids |-> {}]

\* The requests that run query by query, and one that is not running.
Callers == 1..MaxCallers
NoCall == [pc |-> "idle"]

Init ==
    /\ role = [u \in Users |-> IF u = "u_admin" THEN "admin" ELSE "client"]
    /\ templates = <<>>
    /\ subs = <<>>
    /\ nextSid = 1
    /\ now = 0
    /\ taskQueue = [s \in 1..(MaxSubs + MaxLifeSubs) |-> 0]
    /\ notifications = <<>>
    /\ emailQueue = {}
    /\ response = 0
    /\ brokerUp = TRUE
    /\ mailUp = TRUE
    /\ workers = [w \in Workers |-> Idle]
    /\ outbox = <<>>
    /\ removed = {}
    /\ accounts = <<>>
    /\ auth = NoAuth
    /\ sweep = NoSweep
    /\ calls = [c \in Callers |-> NoCall]
    /\ schemaChanges = [t \in TemplateIds |-> 0]

Respond(code) == response' = code

\* send_form_submission_notification.delay(str(submission.id))
Enqueue(q, sid) == [q EXCEPT ![sid] = @ + 1]

\* Mutant of Committed: the failed dispatch rolls the saved rows back.
Committed_Rollback(before, after) == IF brokerUp THEN after ELSE before

\* The views wrap nothing in a transaction: every save() that returned is
\* in the table, whatever the rest of the handler does.
Committed(before, after) == after

\* Mutant of UniqueTogether: the table has no unique constraint.
UniqueTogether_Off(rows, self, t, u) == TRUE

\* unique_together = [['form_template', 'submitted_by']]: no row other than
\* `self` holds the pair (a null submitted_by never collides).
UniqueTogether(rows, self, t, u) ==
    u = NoUser \/ ~\E s \in DOMAIN rows \ {self} :
                      rows[s].form_template = t /\ rows[s].submitted_by = u

\* get_queryset of both submission views: the ids of the rows GET
\* /submissions/ lists for user u.
get_queryset(u) ==
    IF role[u] = "admin" THEN DOMAIN subs
    ELSE {s \in DOMAIN subs : subs[s].submitted_by = u}

\* Mutant of CanAccess: every stored submission is found for every user.
CanAccess_Any(u, sid) == sid \in DOMAIN subs

\* get_queryset of both submission views followed by IsOwnerOrAdmin.
CanAccess(u, sid) ==
    /\ sid \in DOMAIN subs
    /\ (role[u] = "admin" \/ subs[sid].submitted_by = u)

\* --------------------------------------------------------------- templates
\* Mutant of SavedVersion: version is a writable field of the serializer.
SavedVersion_Writable(req, current) ==
    IF req.has_version THEN req.version ELSE current

\* 'version' is one of FormTemplateSerializer's read_only_fields: a value in
\* the request body is dropped and the row keeps the version it has.
SavedVersion(req, current) == current

\* FormTemplateListCreateView: POST /templates/
CreateTemplate(u, req) ==
    /\ UNCHANGED <<sideVars, schemaChanges>>
    /\ UNCHANGED <<role, subs, nextSid, now, taskQueue, notifications,
                   emailQueue>>
    /\ IF role[u] # "admin"
       THEN Respond(403) /\ UNCHANGED templates
       ELSE IF req.has_schema /\ ~validate_schema(req.schema)
       THEN Respond(400) /\ UNCHANGED templates
       ELSE /\ templates' = Append(templates,
                 [schema |-> IF req.has_schema THEN req.schema
                             ELSE DefaultSchema,
                  allow_multiple_submissions |->
                      IF req.has_allow THEN req.allow_multiple_submissions
                      ELSE FALSE,
                  status |-> IF req.has_status THEN req.status ELSE "draft",
                  version |-> SavedVersion(req, 1)])
            /\ Respond(201)

\* FormTemplate.increment_version
increment_version(form) == [form EXCEPT !.version = @ + 1]

\* FormTemplateSerializer.update: the instance after serializer.save().
SavedTemplate(form, req) ==
    [form EXCEPT
       !.schema = IF req.has_schema THEN req.schema ELSE @,
       !.version = SavedVersion(req, @),
       !.allow_multiple_submissions =
           IF req.has_allow THEN req.allow_multiple_submissions ELSE @,
       !.status = IF req.has_status THEN req.status ELSE @]

\* FormTemplateDetailView.perform_update: PATCH /templates/<id>/, run
\* without another request in between.
UpdateTemplate(u, t, req) ==
    /\ UNCHANGED sideVars
    /\ UNCHANGED <<role, subs, nextSid, now, taskQueue, notifications,
                   emailQueue>>
    /\ IF role[u] # "admin"
       THEN Respond(403) /\ UNCHANGED <<templates, schemaChanges>>
       ELSE IF t \notin DOMAIN templates
       THEN Respond(404) /\ UNCHANGED <<templates, schemaChanges>>
       ELSE IF req.has_schema /\ ~validate_schema(req.schema)
       THEN Respond(400) /\ UNCHANGED <<templates, schemaChanges>>
       ELSE IF req.has_schema /\ templates[t].schema # req.schema
       THEN /\ templates[t].version < MaxVersion
            /\ templates' = [templates EXCEPT ![t] = increment_version(
                                 SavedTemplate(@, req))]
            /\ schemaChanges' = [schemaChanges EXCEPT ![t] = @ + 1]
            /\ Respond(200)
       ELSE Respond(200) /\ UNCHANGED <<templates, schemaChanges>>

\* PATCH /templates/<id>/ query by query, first step: the permission check,
\* get_object() into the instance of the request, and the validation of the
\* body.  A body without a schema is answered at once: nothing is saved.
EditLoad(c, u, t, req) ==
    /\ calls[c].pc = "idle"
    /\ UNCHANGED <<role, templates, subs, nextSid, now, taskQueue,
                   notifications, emailQueue, brokerUp, mailUp, workers,
                   outbox, removed, accounts, auth, sweep, schemaChanges>>
    /\ IF role[u] # "admin"
       THEN Respond(403) /\ UNCHANGED calls
       ELSE IF t \notin DOMAIN templates
       THEN Respond(404) /\ UNCHANGED calls
       ELSE IF req.has_schema /\ ~validate_schema(req.schema)
       THEN Respond(400) /\ UNCHANGED calls
       ELSE IF ~req.has_schema
       THEN Respond(200) /\ UNCHANGED calls
       ELSE /\ templates[t].version < MaxVersion
            /\ calls' = [calls EXCEPT ![c] =
                           [pc |-> "edit_loaded", t |-> t, req |-> req,
                            instance |-> templates[t]]]
            /\ UNCHANGED response

\* Second step: old_schema = self.get_object().schema reads the row again
\* and is compared with the schema of the body.
EditCompare(c) ==
    /\ calls[c].pc = "edit_loaded"
    /\ UNCHANGED <<role, templates, subs, nextSid, now, taskQueue,
                   notifications, emailQueue, brokerUp, mailUp, workers,
                   outbox, removed, accounts, auth, sweep, schemaChanges>>
    /\ IF templates[calls[c].t].schema # calls[c].req.schema
       THEN /\ calls' = [calls EXCEPT ![c].pc = "edit_changed"]
            /\ UNCHANGED response
       ELSE /\ calls' = [calls EXCEPT ![c] = NoCall]
            /\ Respond(200)

\* Third step: serializer.save() writes every column of the instance.
EditSave(c) ==
    /\ calls[c].pc = "edit_changed"
    /\ UNCHANGED <<role, subs, nextSid, now, taskQueue, notifications,
                   emailQueue, response, brokerUp, mailUp, workers, outbox,
                   removed, accounts, auth, sweep>>
    /\ LET t == calls[c].t
           saved == SavedTemplate(calls[c].instance, calls[c].req) IN
       /\ templates' = [templates EXCEPT ![t] = saved]
       /\ schemaChanges' = [schemaChanges EXCEPT ![t] =
               IF templates[t].schema # saved.schema THEN @ + 1 ELSE @]
       /\ calls' = [calls EXCEPT ![c] =
                      [@ EXCEPT !.pc = "edit_saved", !.instance = saved]]

\* Fourth step: form.increment_version() adds one to the version of the
\* instance and saves it with update_fields.
EditBump(c) ==
    /\ calls[c].pc = "edit_saved"
    /\ UNCHANGED <<role, subs, nextSid, now, taskQueue, notifications,
                   emailQueue, brokerUp, mailUp, workers, outbox, removed,
                   accounts, auth, sweep, schemaChanges>>
    /\ templates' = [templates EXCEPT ![calls[c].t].version =
                        increment_version(calls[c].instance).version]
    /\ calls' = [calls EXCEPT ![c] = NoCall]
    /\ Respond(200)

\* ------------------------------------------------------------- submissions
\* FormSubmissionCreateSerializer.create: the row that is inserted.
NewSubmission(u, req, version) ==
    [form_template |-> req.form_template,
     submitted_by |-> u,
     data |-> req.data,
     schema_version |-> version,
     status |-> IF req.status = ABSENT THEN "draft" ELSE req.status,
     updated_at |-> now,
     submitted_at |-> NoTime,
     reviewed_by |-> NoUser,
     reviewed_at |-> NoTime]

\* FormSubmissionCreateSerializer.validate: TRUE when the body is accepted.
validate(req) ==
    req.status = "submitted"
       => DOMAIN validate_form_data(templates[req.form_template].schema,
                                    req.data) = {}

\* FormSubmissionListCreateView: POST /submissions/
CreateSubmission(u, req) ==
    /\ UNCHANGED <<sideVars, schemaChanges>>
    /\ UNCHANGED <<role, templates, now, notifications, emailQueue>>
    /\ IF req.form_template \notin DOMAIN templates
       THEN Respond(400)
            /\ UNCHANGED <<subs, nextSid, taskQueue>>
       ELSE IF ~validate(req)
       THEN Respond(400)
            /\ UNCHANGED <<subs, nextSid, taskQueue>>
       ELSE IF ~UniqueTogether(subs, 0, req.form_template, u)
       THEN Respond(500)      \* IntegrityError
            /\ UNCHANGED <<subs, nextSid, taskQueue>>
       ELSE LET row == NewSubmission(u, req,
                           templates[req.form_template].version) IN
            /\ nextSid' = nextSid + 1
            /\ IF row.status = "submitted"
               THEN /\ subs' = Committed(subs, subs @@
                          (nextSid :> [row EXCEPT !.submitted_at = now]))
                    /\ IF brokerUp
                       THEN taskQueue' = Enqueue(taskQueue, nextSid)
                            /\ Respond(201)
                       ELSE UNCHANGED taskQueue   \* .delay() raises
                            /\ Respond(500)
               ELSE /\ subs' = subs @@ (nextSid :> row)
                    /\ UNCHANGED taskQueue
                    /\ Respond(201)

\* Mutant of SavedSubmission: saving stamps the template's current version.
SavedSubmission_Restamp(row, req) ==
    [row EXCEPT
       !.form_template = IF req.form_template # 0 THEN req.form_template ELSE @,
       !.data = IF req.has_data THEN req.data ELSE @,
       !.status = IF req.status # ABSENT THEN req.status ELSE @,
       !.schema_version = templates[row.form_template].version,
       !.updated_at = now,
       !.reviewed_by = IF req.has_review THEN req.reviewed_by ELSE @,
       !.reviewed_at = IF req.has_review THEN req.reviewed_at ELSE @]

\* FormSubmissionSerializer.update: the row after serializer.save().
SavedSubmission(row, req) ==
    [row EXCEPT
       !.form_template = IF req.form_template # 0 THEN req.form_template ELSE @,
       !.data = IF req.has_data THEN req.data ELSE @,
       !.status = IF req.status # ABSENT THEN req.status ELSE @,
       !.updated_at = now,
       !.reviewed_by = IF req.has_review THEN req.reviewed_by ELSE @,
       !.reviewed_at = IF req.has_review THEN req.reviewed_at ELSE @]

\* FormSubmissionDetailView.perform_update: PATCH /submissions/<id>/, run
\* without another request or task in between.
UpdateSubmission(u, sid, req) ==
    /\ UNCHANGED <<sideVars, schemaChanges>>
    /\ UNCHANGED <<role, templates, nextSid, now, notifications, emailQueue>>
    /\ IF ~CanAccess(u, sid)
       THEN Respond(404)
            /\ UNCHANGED <<subs, taskQueue>>
       ELSE IF req.form_template # 0 /\ req.form_template \notin DOMAIN templates
       THEN Respond(400)
            /\ UNCHANGED <<subs, taskQueue>>
       ELSE LET saved == SavedSubmission(subs[sid], req) IN
            IF ~UniqueTogether(subs, sid, saved.form_template,
                               saved.submitted_by)
            THEN Respond(500)  \* IntegrityError
                 /\ UNCHANGED <<subs, taskQueue>>
            ELSE IF req.status = "submitted" /\ saved.submitted_at = NoTime
                 THEN /\ subs' = Committed(subs, [subs EXCEPT
                             ![sid] = [saved EXCEPT !.submitted_at = now]])
                      /\ IF brokerUp
                         THEN taskQueue' = Enqueue(taskQueue, sid)
                              /\ Respond(200)
                         ELSE UNCHANGED taskQueue   \* .delay() raises
                              /\ Respond(500)
                 ELSE /\ subs' = [subs EXCEPT ![sid] = saved]
                      /\ UNCHANGED taskQueue
                      /\ Respond(200)

\* PATCH /submissions/<id>/ query by query, first step: get_object() reads
\* the row into the instance of the request and the body is validated.
PatchLoad(c, u, sid, req) ==
    /\ calls[c].pc = "idle"
    /\ UNCHANGED <<role, templates, subs, nextSid, now, taskQueue,
                   notifications, emailQueue, brokerUp, mailUp, workers,
                   outbox, removed, accounts, auth, sweep, schemaChanges>>
    /\ IF ~CanAccess(u, sid)
       THEN Respond(404) /\ UNCHANGED calls
       ELSE IF req.form_template # 0 /\ req.form_template \notin DOMAIN templates
       THEN Respond(400) /\ UNCHANGED calls
       ELSE /\ calls' = [calls EXCEPT ![c] =
                           [pc |-> "patch_loaded", sid |-> sid, req |-> req,
                            instance |-> subs[sid]]]
            /\ UNCHANGED response

\* Second step: serializer.save() writes every column of the instance; an
\* UPDATE that finds no row is followed by an INSERT.
PatchSave(c) ==
    /\ calls[c].pc = "patch_loaded"
    /\ UNCHANGED <<role, templates, nextSid, now, taskQueue, notifications,
                   emailQueue, brokerUp, mailUp, workers, outbox, removed,
                   accounts, auth, sweep, schemaChanges>>
    /\ LET sid == calls[c].sid
           req == calls[c].req
           saved == SavedSubmission(calls[c].instance, req) IN
       IF ~UniqueTogether(subs, sid, saved.form_template, saved.submitted_by)
       THEN /\ Respond(500)    \* IntegrityError
            /\ UNCHANGED subs
            /\ calls' = [calls EXCEPT ![c] = NoCall]
       ELSE /\ subs' = IF sid \in DOMAIN subs
                       THEN [subs EXCEPT ![sid] = saved]
                       ELSE subs @@ (sid :> saved)
            /\ IF req.status = "submitted" /\ saved.submitted_at = NoTime
               THEN /\ calls' = [calls EXCEPT ![c] =
                          [@ EXCEPT !.pc = "patch_saved", !.instance = saved]]
                    /\ UNCHANGED response
               ELSE /\ calls' = [calls EXCEPT ![c] = NoCall]
                    /\ Respond(200)

\* Third step: submitted_at is set on the instance and saved with
\* update_fields, and the notification task is enqueued.
PatchStamp(c) ==
    /\ calls[c].pc = "patch_saved"
    /\ UNCHANGED <<role, templates, nextSid, now, notifications,
                   emailQueue, brokerUp, mailUp, workers, outbox, removed,
                   accounts, auth, sweep, schemaChanges>>
    /\ calls' = [calls EXCEPT ![c] = NoCall]
    /\ LET sid == calls[c].sid IN
       IF sid \notin DOMAIN subs
       THEN /\ Respond(500)    \* DatabaseError: no row was affected
            /\ UNCHANGED <<subs, taskQueue>>
       ELSE /\ subs' = [subs EXCEPT ![sid].submitted_at = now]
            /\ IF brokerUp
               THEN taskQueue' = Enqueue(taskQueue, sid) /\ Respond(200)
               ELSE UNCHANGED taskQueue /\ Respond(500)

\* FormSubmissionDetailView: DELETE /submissions/<id>/
DeleteSubmission(u, sid) ==
    /\ UNCHANGED <<sideVars, schemaChanges>>
    /\ UNCHANGED <<role, templates, nextSid, now, taskQueue, notifications,
                   emailQueue>>
    /\ IF ~CanAccess(u, sid)
       THEN Respond(404) /\ UNCHANGED subs
       ELSE /\ subs' = [s \in DOMAIN subs \ {sid} |-> subs[s]]
            /\ Respond(204)

\* public_forms: the ids of the templates GET /public/ lists for user u.
public_forms(u) ==
    LET user_submissions ==
            {subs[s].form_template :
                s \in {x \in DOMAIN subs : /\ subs[x].submitted_by = u
                                           /\ subs[x].status = "submitted"}}
        forms == {t \in DOMAIN templates : templates[t].status = "active"}
    IN {t \in forms : ~(/\ ~templates[t].allow_multiple_submissions
                        /\ t \in user_submissions)}

\* ------------------------------------------------------------------- users
\* promote_to_admin: POST by the user itself
promote_to_admin(u) ==
    /\ UNCHANGED <<sideVars, schemaChanges>>
    /\ UNCHANGED <<templates, subs, nextSid, now, taskQueue, notifications,
                   emailQueue>>
    /\ role' = [role EXCEPT ![u] = "admin"]
    /\ Respond(200)

\* 'role' is one of UserProfileSerializer's read_only_fields: a value in the
\* request body is dropped.
SavedRole(req, current) == current

\* Bodies of PATCH /profile/ as far as the role goes.
ProfileRequests ==
    {[has_role |-> r[1], role |-> r[2]] :
        r \in {<<FALSE, "client">>} \cup ({TRUE} \X {"admin", "client"})}

\* UserProfileView: PATCH /profile/ by the user itself
UpdateProfile(u, req) ==
    /\ UNCHANGED <<templates, subs, nextSid, now, taskQueue, notifications,
                   emailQueue>>
    /\ UNCHANGED <<sideVars, schemaChanges>>
    /\ role' = [role EXCEPT ![u] = SavedRole(req, @)]
    /\ Respond(200)

\* ---------------------------------------------------------- authentication
\* Strings that the code cuts and joins are sequences of characters.
SubA == <<"a", "b", "c", "d", "e", "f", "g", "h", "1">>
SubB == <<"a", "b", "c", "d", "e", "f", "g", "h", "2">>
SubC == <<"z">>
NoSub == <<>>                      \* the payload has no 'sub'

\* An email address, cut at the '@'; NoEmail is the empty string.
Email(local, host) == [local |-> local, host |-> host]
NoEmail == Email(<<>>, "")
AnnAtX == Email(<<"a", "n", "n">>, "x.org")
Ann1AtX == Email(<<"a", "n", "n", "1">>, "x.org")

\* The issuer claim: a host and the slashes that may follow it.
Issuer(host, slashes) == [host |-> host, slashes |-> slashes]

\* issuer.rstrip('/')
get_clerk_domain_from_token(token) == token.iss.host

\* The issuer of the identity provider the deployment uses, and other hosts.
ClerkDomain == "knowing-herring-54.clerk.accounts.dev"
OtherDomain == "evil.example"      \* serves a key set of its own
EmptyDomain == "empty.example"     \* serves a key set without keys
DownDomain == "down.example"       \* does not answer

\* requests.get(jwks_url).json()['keys'] per host: kid and public key.
JwksAt(domain) ==
    IF domain = ClerkDomain THEN {[kid |-> "k1", key |-> "clerk-key"]}
    ELSE IF domain = OtherDomain THEN {[kid |-> "k1", key |-> "other-key"]}
    ELSE {}

\* get_jwks: ok is FALSE when AuthenticationFailed is raised.  A new
\* ClerkAuthentication serves every request, so its cache starts empty.
get_jwks(token) ==
    LET domain == get_clerk_domain_from_token(token) IN
    IF domain = "" THEN [ok |-> FALSE, keys |-> {}]
    ELSE IF domain = DownDomain THEN [ok |-> FALSE, keys |-> {}]
    ELSE IF JwksAt(domain) = {} THEN [ok |-> FALSE, keys |-> {}]
    ELSE [ok |-> TRUE, keys |-> JwksAt(domain)]

\* str(counter) for the counters the loop reaches.
Digits == <<"1", "2", "3", "4", "5", "6", "7", "8", "9">>
StrOfCounter(counter) == <<Digits[counter]>>

\* username of the rows of the User table.
Usernames(rows) == {rows[i].username : i \in 1..Len(rows)}

\* The loop of get_or_create_user: the first of base, base1, base2, ... that
\* no user has.
RECURSIVE NextFreeUsername(_, _, _, _)
NextFreeUsername(rows, base_username, username, counter) ==
    IF username \in Usernames(rows)
    THEN NextFreeUsername(rows, base_username,
                          base_username \o StrOfCounter(counter), counter + 1)
    ELSE username

\* Mutant of UniqueUsername: the loop that looks for a free name is missing.
UniqueUsername_Base(rows, base_username) == base_username

UniqueUsername(rows, base_username) ==
    NextFreeUsername(rows, base_username, base_username, 1)

\* clerk_user_id[:8]
Prefix8(sq) == SubSeq(sq, 1, IF Len(sq) < 8 THEN Len(sq) ELSE 8)

\* The username get_or_create_user starts from.
BaseUsername(payload) ==
    IF payload.email # NoEmail THEN payload.email.local
    ELSE <<"u", "s", "e", "r", "_">> \o Prefix8(payload.sub)

\* User.objects.get(clerk_id=...): the index of the row, 0 for DoesNotExist.
UserByClerkId(rows, clerk_user_id) ==
    IF \E i \in 1..Len(rows) : rows[i].clerk_id = clerk_user_id
    THEN CHOOSE i \in 1..Len(rows) : rows[i].clerk_id = clerk_user_id
    ELSE 0

\* get_or_create_user: the User table after the call.
get_or_create_user(rows, payload) ==
    LET i == UserByClerkId(rows, payload.sub) IN
    IF i # 0
    THEN IF payload.email # NoEmail /\ rows[i].email # payload.email
         THEN [rows EXCEPT ![i].email = payload.email]
         ELSE rows
    ELSE Append(rows, [clerk_id |-> payload.sub,
                       username |-> UniqueUsername(rows, BaseUsername(payload)),
                       email |-> payload.email,
                       role |-> "client"])

\* ClerkAuthentication.authenticate for a request with a bearer token.
authenticate(token) ==
    /\ UNCHANGED <<role, templates, subs, nextSid, now, taskQueue,
                   notifications, emailQueue, response, brokerUp, mailUp,
                   workers, outbox, removed, sweep, calls, schemaChanges>>
    /\ LET jwks == get_jwks(token)
           Failed == /\ auth' = [outcome |-> "failed", user |-> 0]
                     /\ UNCHANGED accounts
       IN
       IF token.kid = "" THEN Failed            \* 'Token missing key ID'
       ELSE IF ~jwks.ok THEN Failed
       ELSE IF ~\E k \in jwks.keys : k.kid = token.kid
       THEN Failed                              \* 'Key ID not found in JWKS'
       ELSE IF ~\E k \in jwks.keys : k.kid = token.kid /\ k.key = token.key
       THEN Failed                              \* InvalidSignatureError
       ELSE IF token.expired THEN Failed        \* ExpiredSignatureError
       ELSE IF token.sub = NoSub THEN Failed    \* 'Token missing user ID'
       ELSE /\ accounts' = get_or_create_user(accounts, token)
            /\ auth' = [outcome |-> "user",
                        user |-> UserByClerkId(accounts', token.sub)]

\* ------------------------------------------------------------------- tasks
\* Mutant of AdminUsers: the role filter is missing.
AdminUsers_All == UserOrder

\* User.objects.filter(role='admin'), in the order the rows are returned.
AdminUsers == SelectSeq(UserOrder, LAMBDA u : role[u] = "admin")

\* Mutant of SubmissionNotifications: a .delay() that raises ends the loop.
SubmissionNotifications_Abort(sid, admins) ==
    [i \in 1..(IF brokerUp \/ Len(admins) = 0 THEN Len(admins) ELSE 1) |->
        [recipient |-> admins[i],
         notification_type |-> "form_submitted",
         related_object_id |-> sid,
         is_read |-> FALSE,
         read_at |-> NoTime,
         is_emailed |-> FALSE,
         email_sent_at |-> NoTime]]

\* The rows send_form_submission_notification creates, one per admin.
SubmissionNotifications(sid, admins) ==
    [i \in 1..Len(admins) |->
        [recipient |-> admins[i],
         notification_type |-> "form_submitted",
         related_object_id |-> sid,
         is_read |-> FALSE,
         read_at |-> NoTime,
         is_emailed |-> FALSE,
         email_sent_at |-> NoTime]]

\* send_form_submission_notification: one run of a queued task.
send_form_submission_notification(sid) ==
    /\ taskQueue[sid] > 0
    /\ taskQueue' = [taskQueue EXCEPT ![sid] = @ - 1]
    /\ UNCHANGED <<role, templates, subs, nextSid, now, response>>
    /\ UNCHANGED <<sideVars, schemaChanges>>
    /\ IF sid \notin DOMAIN subs
       THEN \* FormSubmission.DoesNotExist is logged and raised again
            UNCHANGED <<notifications, emailQueue>>
       ELSE IF subs[sid].submitted_by = NoUser /\ Len(AdminUsers) > 0
       THEN \* submitted_by.get_full_name() on None raises
            UNCHANGED <<notifications, emailQueue>>
       ELSE LET new == SubmissionNotifications(sid, AdminUsers) IN
            /\ notifications' = notifications \o new
            /\ emailQueue' =
                  IF brokerUp
                  THEN emailQueue \cup
                       (Len(notifications) + 1)..(Len(notifications) + Len(new))
                  ELSE emailQueue   \* every .delay() raises and is logged

\* cleanup_old_drafts, first step: old_drafts is evaluated.  A FileUpload
\* row cascades from its submission, so delete() first selects the rows of
\* the queryset and then deletes them by primary key.
SweepCollect ==
    /\ sweep.pc = "idle"
    /\ sweep' = [pc |-> "collected",
                 ids |-> {s \in DOMAIN subs :
                            /\ subs[s].status = "draft"
                            /\ subs[s].updated_at < now - DraftRetention}]
    /\ UNCHANGED <<role, templates, subs, nextSid, now, taskQueue,
                   notifications, emailQueue, response, brokerUp, mailUp,
                   workers, outbox, removed, accounts, auth, calls,
                   schemaChanges>>

\* cleanup_old_drafts, second step: the selected rows are deleted.
SweepDelete ==
    /\ sweep.pc = "collected"
    /\ subs' = [s \in DOMAIN subs \ sweep.ids |-> subs[s]]
    /\ sweep' = NoSweep
    /\ UNCHANGED <<role, templates, nextSid, now, taskQueue,
                   notifications, emailQueue, response, brokerUp, mailUp,
                   workers, outbox, removed, accounts, auth, calls,
                   schemaChanges>>

\* User.email of the two users; the client has none.
EmailOf == [u \in Users |-> IF u = "u_admin" THEN "a@b.co" ELSE ""]

\* The ids of the Notification rows in the table.
StoredNotifications == (1..Len(notifications)) \ removed

\* send_email_notification, first step: the row is read and the two early
\* returns are taken or not.  Any notification whose task was queued can be
\* run, any number of times.
EmailLoad(w, n) ==
    /\ workers[w].pc = "idle"
    /\ n \in emailQueue
    /\ UNCHANGED <<role, templates, subs, nextSid, now, taskQueue,
                   notifications, emailQueue, response, brokerUp, mailUp,
                   outbox, removed, accounts, auth, sweep, calls,
                   schemaChanges>>
    /\ IF n \notin StoredNotifications
       THEN UNCHANGED workers          \* Notification.DoesNotExist is raised
       ELSE IF notifications[n].is_emailed
       THEN UNCHANGED workers          \* "Email already sent"
       ELSE IF EmailOf[notifications[n].recipient] = ""
       THEN UNCHANGED workers          \* "No email address"
       ELSE workers' = [workers EXCEPT ![w] = [pc |-> "loaded", nid |-> n]]

\* send_email_notification, second step: email.send().
EmailSend(w) ==
    /\ workers[w].pc = "loaded"
    /\ UNCHANGED <<role, templates, subs, nextSid, now, taskQueue,
                   notifications, emailQueue, response, brokerUp, mailUp,
                   removed, accounts, auth, sweep, calls, schemaChanges>>
    /\ LET n == workers[w].nid IN
       IF mailUp
       THEN /\ outbox' = IF n \in DOMAIN outbox
                         THEN [outbox EXCEPT ![n] = @ + 1]
                         ELSE outbox @@ (n :> 1)
            /\ workers' = [workers EXCEPT ![w].pc = "sent"]
       ELSE /\ UNCHANGED outbox         \* the exception is logged and raised
            /\ workers' = [workers EXCEPT ![w] = Idle]

\* send_email_notification, third step: the flag and the time are saved.
EmailSave(w) ==
    /\ workers[w].pc = "sent"
    /\ UNCHANGED <<role, templates, subs, nextSid, now, taskQueue,
                   emailQueue, response, brokerUp, mailUp, outbox, removed,
                   accounts, auth, sweep, calls, schemaChanges>>
    /\ workers' = [workers EXCEPT ![w] = Idle]
    /\ LET n == workers[w].nid IN
       IF n \in StoredNotifications
       THEN notifications' = [notifications EXCEPT
                ![n] = [@ EXCEPT !.is_emailed = TRUE, !.email_sent_at = now]]
       ELSE UNCHANGED notifications    \* save(update_fields) finds no row

\* Mutant of mark_as_read: the is_read test is missing.
mark_as_read_Always(row) == [row EXCEPT !.is_read = TRUE, !.read_at = now]

\* Notification.mark_as_read
mark_as_read(row) ==
    IF ~row.is_read
    THEN [row EXCEPT !.is_read = TRUE, !.read_at = now]
    ELSE row

\* Mutant of OwnNotification: the recipient filter is missing.
OwnNotification_Any(u, n) == n \in StoredNotifications

\* Notification.objects.get(id=notification_id, recipient=request.user)
\* finds a row.
OwnNotification(u, n) ==
    n \in StoredNotifications /\ notifications[n].recipient = u

\* mark_notification_read: POST by user u
mark_notification_read(u, n) ==
    /\ UNCHANGED <<role, templates, subs, nextSid, now, taskQueue,
                   emailQueue, brokerUp, mailUp, workers, outbox, removed,
                   accounts, auth, sweep, calls, schemaChanges>>
    /\ IF OwnNotification(u, n)
       THEN /\ notifications' = [notifications EXCEPT
                                    ![n] = mark_as_read(@)]
            /\ Respond(200)
       ELSE /\ UNCHANGED notifications
            /\ Respond(404)

\* mark_all_read: POST by user u
mark_all_read(u) ==
    /\ UNCHANGED <<role, templates, subs, nextSid, now, taskQueue,
                   emailQueue, brokerUp, mailUp, workers, outbox, removed,
                   accounts, auth, sweep, calls, schemaChanges>>
    /\ notifications' =
          [n \in 1..Len(notifications) |->
              IF OwnNotification(u, n) /\ ~notifications[n].is_read
              THEN mark_as_read(notifications[n])
              ELSE notifications[n]]
    /\ Respond(200)

\* mark_notification_read query by query, first step:
\* Notification.objects.get reads the row into the instance of the request.
MarkLoad(c, u, n) ==
    /\ calls[c].pc = "idle"
    /\ UNCHANGED <<role, templates, subs, nextSid, now, taskQueue,
                   notifications, emailQueue, brokerUp, mailUp, workers,
                   outbox, removed, accounts, auth, sweep, schemaChanges>>
    /\ IF OwnNotification(u, n)
       THEN /\ calls' = [calls EXCEPT ![c] =
                           [pc |-> "mark_loaded",
                            view |-> "mark_notification_read",
                            rows |-> (n :> notifications[n])]]
            /\ UNCHANGED response
       ELSE /\ UNCHANGED calls
            /\ Respond(404)

\* mark_all_read query by query, first step: the loop evaluates the queryset
\* of the user's unread notifications.
MarkAllLoad(c, u) ==
    /\ calls[c].pc = "idle"
    /\ UNCHANGED <<role, templates, subs, nextSid, now, taskQueue,
                   notifications, emailQueue, brokerUp, mailUp, workers,
                   outbox, removed, accounts, auth, sweep, schemaChanges>>
    /\ LET unread == {n \in 1..Len(notifications) :
                        OwnNotification(u, n) /\ ~notifications[n].is_read}
       IN IF unread = {}
          THEN UNCHANGED calls /\ Respond(200)
          ELSE /\ calls' = [calls EXCEPT ![c] =
                              [pc |-> "mark_loaded",
                               view |-> "mark_all_read",
                               rows |-> [n \in unread |-> notifications[n]]]]
               /\ UNCHANGED response

\* Next step of either request: notification.mark_as_read() on one of the
\* instances that were read; it saves is_read and read_at with update_fields
\* when the instance is unread.
MarkSave(c) ==
    /\ calls[c].pc = "mark_loaded"
    /\ UNCHANGED <<role, templates, subs, nextSid, now, taskQueue,
                   emailQueue, brokerUp, mailUp, workers, outbox, removed,
                   accounts, auth, sweep, schemaChanges>>
    /\ LET rows == calls[c].rows
           n == CHOOSE x \in DOMAIN rows : \A y \in DOMAIN rows : x <= y
           marked == mark_as_read(rows[n])
           rest == [x \in DOMAIN rows \ {n} |-> rows[x]]
       IN IF ~rows[n].is_read /\ n \notin StoredNotifications
          THEN /\ UNCHANGED notifications    \* DatabaseError: no row affected
               /\ calls' = [calls EXCEPT ![c] = NoCall]
               /\ Respond(500)
          ELSE /\ notifications' =
                     IF rows[n].is_read THEN notifications
                     ELSE [notifications EXCEPT
                             ![n] = [@ EXCEPT !.is_read = marked.is_read,
                                              !.read_at = marked.read_at]]
               /\ IF DOMAIN rest = {}
                  THEN calls' = [calls EXCEPT ![c] = NoCall] /\ Respond(200)
                  ELSE calls' = [calls EXCEPT ![c].rows = rest]
                       /\ UNCHANGED response

\* delete_notification: DELETE by user u
delete_notification(u, n) ==
    /\ UNCHANGED <<role, templates, subs, nextSid, now, taskQueue,
                   notifications, emailQueue, brokerUp, mailUp, workers,
                   outbox, accounts, auth, sweep, calls, schemaChanges>>
    /\ IF OwnNotification(u, n)
       THEN removed' = removed \cup {n} /\ Respond(204)
       ELSE UNCHANGED removed /\ Respond(404)

\* The task broker goes down or comes back.
BrokerFlip ==
    /\ brokerUp' = ~brokerUp
    /\ UNCHANGED <<role, templates, subs, nextSid, now, taskQueue,
                   notifications, emailQueue, response, mailUp, workers,
                   outbox, removed, accounts, auth, sweep, calls,
                   schemaChanges>>

\* The mail server goes down or comes back.
MailFlip ==
    /\ mailUp' = ~mailUp
    /\ UNCHANGED <<role, templates, subs, nextSid, now, taskQueue,
                   notifications, emailQueue, response, brokerUp, workers,
                   outbox, removed, accounts, auth, sweep, calls,
                   schemaChanges>>

\* The clock advances between requests.
Tick ==
    /\ now < MaxTime
    /\ now' = now + 1
    /\ UNCHANGED <<role, templates, subs, nextSid, taskQueue, notifications,
                   emailQueue, response>>
    /\ UNCHANGED <<sideVars, schemaChanges>>

\* More than DraftRetention days pass between requests.
Leap ==
    /\ now <= MaxTime
    /\ now' = now + DraftRetention + 1
    /\ UNCHANGED <<role, templates, subs, nextSid, taskQueue, notifications,
                   emailQueue, response>>
    /\ UNCHANGED <<sideVars, schemaChanges>>

\* -------------------------------------------------------------------- Next
\* Spec: the life of one submission.  Every handler and the notification
\* task, one template whose schema changes, every status, both users.
LifeTemplateIds == 1..MaxLifeTemplates
LifeSchemas == {S1, S2, Schema(<<>>)}
LifeDatas == {D_ok, D_blank}
LifeStatuses == STATUS_CHOICES \cup {ABSENT}

Next ==
    \/ \E u \in Users, req \in TemplateRequests(LifeSchemas, {}) :
          Len(templates) < MaxLifeTemplates /\ CreateTemplate(u, req)
    \/ \E u \in Users, t \in LifeTemplateIds,
          req \in TemplateRequests(LifeSchemas, {}) :
          UpdateTemplate(u, t, req)
    \/ \E u \in Users,
          req \in CreateRequests(LifeTemplateIds, LifeDatas, LifeStatuses) :
          nextSid <= MaxLifeSubs /\ CreateSubmission(u, req)
    \/ \E u \in Users, sid \in 1..MaxLifeSubs,
          req \in UpdateRequests(LifeTemplateIds, {D_blank}, LifeStatuses,
                                 {"u_admin"}) :
          UpdateSubmission(u, sid, req)
    \/ \E u \in Users, sid \in 1..MaxLifeSubs : DeleteSubmission(u, sid)
    \/ \E u \in Users : promote_to_admin(u)
    \/ \E sid \in 1..MaxLifeSubs : send_form_submission_notification(sid)
    \/ Tick

Spec == Init /\ [][Next]_vars

\* SpecMulti: several submissions of the same users to two templates that
\* allow or forbid multiple submissions.
MultiStatuses == {"draft", "submitted", ABSENT}

NextMulti ==
    \/ \E u \in Users, req \in TemplateRequests({S1}, BOOLEAN) :
          Len(templates) < MaxTemplates /\ CreateTemplate(u, req)
    \/ \E u \in Users, req \in CreateRequests(TemplateIds, {D_ok}, MultiStatuses) :
          nextSid <= MaxSubs /\ CreateSubmission(u, req)
    \/ \E u \in Users, sid \in 1..MaxSubs,
          req \in UpdateRequests(TemplateIds, {}, MultiStatuses, {}) :
          UpdateSubmission(u, sid, req)
    \/ \E u \in Users, sid \in 1..MaxSubs : DeleteSubmission(u, sid)

SpecMulti == Init /\ [][NextMulti]_vars

\* SpecValidation: submitted data is validated against the template's
\* schema; one template of any accepted schema, one submission of any data.
ValidationSchemas == {S1, S2, Schema(<<F_age, F_name>>), Schema(<<F_tags>>),
                      Schema(<<F_age>>), Schema(<<>>), Schema(<<F_name, F_dup>>),
                      Schema(<<F_badtype>>), Schema(<<F_noopts>>)}
ValidationDatas == {D_absent, D_null, D_blank, D_nolist, D_ok, D_badage,
                    D_tags, D_notags, D_both, D_nan, D_low, D_min, D_max}
ValidationStatuses == {"draft", "submitted", ABSENT}

NextValidation ==
    \/ \E u \in Users, req \in TemplateRequests(ValidationSchemas, {}) :
          Len(templates) < MaxLifeTemplates /\ CreateTemplate(u, req)
    \/ \E u \in Users,
          req \in CreateRequests(LifeTemplateIds, ValidationDatas,
                                 ValidationStatuses) :
          nextSid <= MaxLifeSubs /\ CreateSubmission(u, req)

SpecValidation == Init /\ [][NextValidation]_vars

\* SpecTemplate: two templates are created and edited by requests that carry
\* a schema, the multiple-submission flag and a version of their own, or not.
TemplateSchemas == {S1, S2, Schema(<<>>)}
TemplateBodies ==
    VersionedRequests(TemplateRequests(TemplateSchemas, BOOLEAN), {MaxVersion})

NextTemplate ==
    \/ \E u \in Users, req \in TemplateBodies :
          Len(templates) < MaxTemplates /\ CreateTemplate(u, req)
    \/ \E u \in Users, t \in TemplateIds, req \in TemplateBodies :
          UpdateTemplate(u, t, req)

SpecTemplate == Init /\ [][NextTemplate]_vars

\* SpecAuth: bearer tokens of three subjects, issued for the provider's
\* domain or for another, signed by either key, and the users' requests to
\* the profile and promotion endpoints.
Issuers == {Issuer(ClerkDomain, 0), Issuer(ClerkDomain, 1),
            Issuer(OtherDomain, 0), Issuer(EmptyDomain, 0),
            Issuer(DownDomain, 0), Issuer("", 0)}

\* Tokens of every subject with every email, well-formed and signed by the
\* provider's key; tokens of one subject that name each issuer, signed by
\* either key; and tokens with one of the other faults.
GoodToken == [iss |-> Issuer(ClerkDomain, 0), kid |-> "k1",
              key |-> "clerk-key", sub |-> SubA, email |-> AnnAtX,
              expired |-> FALSE]

Tokens ==
    [iss : {Issuer(ClerkDomain, 0)}, kid : {"k1"}, key : {"clerk-key"},
     sub : {SubA, SubB, SubC}, email : {NoEmail, AnnAtX, Ann1AtX},
     expired : {FALSE}]
    \cup
    [iss : Issuers, kid : {"k1"}, key : {"clerk-key", "other-key"},
     sub : {SubA}, email : {AnnAtX}, expired : {FALSE}]
    \cup
    {[GoodToken EXCEPT !.kid = "k2"], [GoodToken EXCEPT !.kid = ""],
     [GoodToken EXCEPT !.expired = TRUE], [GoodToken EXCEPT !.sub = NoSub]}

NextAuth ==
    \/ \E token \in Tokens : authenticate(token)
    \/ \E u \in Users, req \in ProfileRequests : UpdateProfile(u, req)
    \/ \E u \in Users : promote_to_admin(u)

SpecAuth == Init /\ [][NextAuth]_vars

\* SpecNotify: the life of one notification.  One submitted submission, its
\* notification task, concurrent runs of the email task against a mail server
\* that comes and goes, and the notification endpoints of both users.
NotifySubmissions == CreateRequests(LifeTemplateIds, {D_ok}, {"submitted"})

NextNotify ==
    \/ \E req \in TemplateRequests({S1}, {}) :
          Len(templates) < MaxLifeTemplates /\ CreateTemplate("u_admin", req)
    \/ \E u \in Users, req \in NotifySubmissions :
          nextSid <= MaxLifeSubs /\ CreateSubmission(u, req)
    \/ \E sid \in 1..MaxLifeSubs : send_form_submission_notification(sid)
    \/ \E w \in Workers, n \in 1..Len(notifications) : EmailLoad(w, n)
    \/ \E w \in Workers : EmailSend(w)
    \/ \E w \in Workers : EmailSave(w)
    \/ MailFlip
    \/ \E u \in Users, n \in 1..Len(notifications) :
          mark_notification_read(u, n)
    \/ \E u \in Users : mark_all_read(u)
    \/ \E u \in Users, n \in 1..Len(notifications) :
          delete_notification(u, n)
    \/ Tick

SpecNotify == Init /\ [][NextNotify]_vars

\* SpecDispatch: notification dispatch against a task broker and a mail
\* server that come and go.  One submission, created or updated to submitted,
\* one or two admins, one run of the email task at a time.
DispatchStatuses == {"draft", "submitted"}
DispatchSubmissions == CreateRequests(LifeTemplateIds, {D_ok}, DispatchStatuses)
DispatchUpdates == UpdateRequests({}, {}, DispatchStatuses, {})

NextDispatch ==
    \/ \E req \in TemplateRequests({S1}, {}) :
          Len(templates) < MaxLifeTemplates /\ CreateTemplate("u_admin", req)
    \/ \E u \in Users, req \in DispatchSubmissions :
          nextSid <= MaxLifeSubs /\ CreateSubmission(u, req)
    \/ \E u \in Users, sid \in 1..MaxLifeSubs, req \in DispatchUpdates :
          UpdateSubmission(u, sid, req)
    \/ \E u \in Users, sid \in 1..MaxLifeSubs : DeleteSubmission(u, sid)
    \/ \E u \in Users : promote_to_admin(u)
    \/ \E sid \in 1..MaxLifeSubs : send_form_submission_notification(sid)
    \/ \E n \in 1..Len(notifications) : EmailLoad(1, n)
    \/ EmailSend(1)
    \/ EmailSave(1)
    \/ BrokerFlip
    \/ MailFlip

SpecDispatch == Init /\ [][NextDispatch]_vars

\* SpecPublic: templates of every status that allow or forbid multiple
\* submissions, and one submission of either user that passes through every
\* status.
PublicTemplates ==
    StatusRequests(TemplateRequests({S1}, BOOLEAN), {"active", "inactive"})
PublicSubmissions == CreateRequests(TemplateIds, {D_ok}, DispatchStatuses)
PublicUpdates == UpdateRequests({}, {}, STATUS_CHOICES, {})

NextPublic ==
    \/ \E u \in Users, req \in PublicTemplates :
          Len(templates) < MaxTemplates /\ CreateTemplate(u, req)
    \/ \E u \in Users, req \in PublicSubmissions :
          nextSid <= MaxLifeSubs /\ CreateSubmission(u, req)
    \/ \E u \in Users, sid \in 1..MaxLifeSubs, req \in PublicUpdates :
          UpdateSubmission(u, sid, req)
    \/ \E u \in Users, sid \in 1..MaxLifeSubs : DeleteSubmission(u, sid)

SpecPublic == Init /\ [][NextPublic]_vars

\* SpecSweep: cleanup_old_drafts runs while both users create drafts and
\* edit or submit them, over days and months.
SweepUpdates == UpdateRequests({}, {D_ok}, DispatchStatuses \cup {ABSENT}, {})

NextSweep ==
    \/ \E req \in TemplateRequests({S1}, {TRUE}) :
          Len(templates) < MaxLifeTemplates /\ CreateTemplate("u_admin", req)
    \/ \E u \in Users, req \in DispatchSubmissions :
          nextSid <= MaxSubs /\ CreateSubmission(u, req)
    \/ \E u \in Users, sid \in 1..MaxSubs, req \in SweepUpdates :
          UpdateSubmission(u, sid, req)
    \/ SweepCollect
    \/ SweepDelete
    \/ Tick
    \/ Leap

SpecSweep == Init /\ [][NextSweep]_vars

\* SpecPatch: update requests for one submission that run at the same time,
\* each between its read of the row and its writes.
NextPatch ==
    \/ \E req \in TemplateRequests({S1}, {}) :
          Len(templates) < MaxLifeTemplates /\ CreateTemplate("u_admin", req)
    \/ \E u \in Users, req \in DispatchSubmissions :
          nextSid <= MaxLifeSubs /\ CreateSubmission(u, req)
    \/ \E c \in Callers, u \in Users, sid \in 1..MaxLifeSubs,
          req \in DispatchUpdates :
          taskQueue[sid] < MaxEnqueued /\ PatchLoad(c, u, sid, req)
    \/ \E c \in Callers : PatchSave(c)
    \/ \E c \in Callers : PatchStamp(c)
    \/ Tick

SpecPatch == Init /\ [][NextPatch]_vars

\* SpecEdit: update requests for one template that run at the same time,
\* each between its reads of the row and its writes.
NextEdit ==
    \/ \E u \in Users, req \in TemplateRequests({S1, S2}, {}) :
          Len(templates) < MaxLifeTemplates /\ CreateTemplate(u, req)
    \/ \E c \in Callers, u \in Users, t \in LifeTemplateIds,
          req \in TemplateRequests(TemplateSchemas, BOOLEAN) :
          schemaChanges[t] < MaxVersion /\ EditLoad(c, u, t, req)
    \/ \E c \in Callers : EditCompare(c)
    \/ \E c \in Callers : EditSave(c)
    \/ \E c \in Callers : EditBump(c)

SpecEdit == Init /\ [][NextEdit]_vars

\* SpecRead: mark-read and mark-all-read requests for the notifications of
\* one submission that run at the same time, each between its read of the
\* rows and its writes.
NextRead ==
    \/ \E req \in TemplateRequests({S1}, {}) :
          Len(templates) < MaxLifeTemplates /\ CreateTemplate("u_admin", req)
    \/ \E u \in Users, req \in NotifySubmissions :
          nextSid <= MaxLifeSubs /\ CreateSubmission(u, req)
    \/ \E u \in Users : promote_to_admin(u)
    \/ \E sid \in 1..MaxLifeSubs : send_form_submission_notification(sid)
    \/ \E c \in Callers, u \in Users, n \in 1..Len(notifications) :
          MarkLoad(c, u, n)
    \/ \E c \in Callers, u \in Users : MarkAllLoad(c, u)
    \/ \E c \in Callers : MarkSave(c)
    \/ Tick

SpecRead == Init /\ [][NextRead]_vars

\* ------------------------------------------------------------------ claims
ReviewStatuses == {"reviewed", "approved", "rejected"}

\* Some row other than `self` is a submitted submission of user x to template t.
HasSubmitted(x, t, self) ==
    \E s \in DOMAIN subs \ {self} :
        /\ subs[s].form_template = t
        /\ subs[s].submitted_by = x
        /\ subs[s].status = "submitted"

\* C1: a submission is stored with the version its template has at that
\* moment as schema_version, and no later step (a submission update, a status
\* change, a template edit that bumps the version) changes that value.
C1_SchemaVersionFixed ==
    [][/\ \A s \in DOMAIN subs' \ DOMAIN subs :
             subs'[s].schema_version =
                 templates[subs'[s].form_template].version
       /\ \A s \in DOMAIN subs \cap DOMAIN subs' :
             subs'[s].schema_version = subs[s].schema_version]_vars

\* C1 witness: a reviewed submission still carries version 1 after its
\* template went on to version 2.
C1_Witness ==
    \E s \in DOMAIN subs :
        /\ subs[s].schema_version = 1
        /\ templates[subs[s].form_template].version = 2
        /\ subs[s].status = "approved"

\* The rows a create or update request of SpecMulti can try to store.
MultiCreateRequests == CreateRequests(TemplateIds, {D_ok}, MultiStatuses)
MultiUpdateRequests == UpdateRequests(TemplateIds, {}, MultiStatuses, {})

\* C2: while a user has a submitted submission to a template that forbids
\* multiple submissions, a create request, or an update of another row, that
\* would give the user one more submitted submission to that template is
\* rejected and changes no stored submission.
C2_SecondSubmitRejected ==
    [][/\ \A u \in Users, req \in MultiCreateRequests :
            ( /\ req.status = "submitted"
              /\ req.form_template \in DOMAIN templates
              /\ ~templates[req.form_template].allow_multiple_submissions
              /\ HasSubmitted(u, req.form_template, 0)
              /\ CreateSubmission(u, req) )
            => (response' >= 400 /\ subs' = subs)
       /\ \A u \in Users, sid \in DOMAIN subs, req \in MultiUpdateRequests :
            ( /\ CanAccess(u, sid)
              /\ SavedSubmission(subs[sid], req).form_template \in DOMAIN templates
              /\ SavedSubmission(subs[sid], req).status = "submitted"
              /\ ~templates[SavedSubmission(subs[sid], req).form_template]
                     .allow_multiple_submissions
              /\ HasSubmitted(subs[sid].submitted_by,
                              SavedSubmission(subs[sid], req).form_template, sid)
              /\ UpdateSubmission(u, sid, req) )
            => (response' >= 400 /\ subs' = subs)]_vars

\* C2 witness: the only stored submission is a submitted one to a template
\* that forbids multiple submissions, and the last request was refused with
\* the integrity error.
C2_Witness ==
    /\ response = 500
    /\ \E s \in DOMAIN subs :
          /\ DOMAIN subs = {s}
          /\ subs[s].status = "submitted"
          /\ ~templates[subs[s].form_template].allow_multiple_submissions

\* C3: while a user has a submitted submission to a template that allows
\* multiple submissions, a create request of the user for a second submitted
\* submission to that template succeeds and stores it beside the first.
C3_SecondSubmitAllowed ==
    [][\A u \in Users, req \in MultiCreateRequests :
          ( /\ req.status = "submitted"
            /\ req.form_template \in DOMAIN templates
            /\ templates[req.form_template].allow_multiple_submissions
            /\ HasSubmitted(u, req.form_template, 0)
            /\ CreateSubmission(u, req) )
          => ( /\ response' = 201
               /\ DOMAIN subs' = DOMAIN subs \cup {nextSid}
               /\ \A s \in DOMAIN subs : subs'[s] = subs[s] )]_vars

\* The rows an update request of Spec can carry.
LifeUpdateRequests ==
    UpdateRequests(LifeTemplateIds, {D_blank}, LifeStatuses, {"u_admin"})
LifeCreateRequests == CreateRequests(LifeTemplateIds, LifeDatas, LifeStatuses)

\* C4: an update request that sets the status to reviewed, approved or
\* rejected and comes from a user who is not an admin, the submitter
\* included, is rejected and leaves the submission as it was.
C4_ReviewAdminOnly ==
    [][\A u \in Users, sid \in DOMAIN subs, req \in LifeUpdateRequests :
          ( /\ role[u] # "admin"
            /\ req.status \in ReviewStatuses
            /\ UpdateSubmission(u, sid, req) )
          => (response' >= 400 /\ subs' = subs)]_vars

\* The place of a status in the order draft, submitted, reviewed,
\* approved/rejected.
StatusRank(st) ==
    IF st = "draft" THEN 0
    ELSE IF st = "submitted" THEN 1
    ELSE IF st = "reviewed" THEN 2
    ELSE 3

\* C5: the status of a submission never moves backwards in the order draft,
\* submitted, reviewed, approved/rejected, and a submission leaves draft only
\* to submitted.
C5_StatusForwardOnly ==
    [][\A s \in DOMAIN subs \cap DOMAIN subs' :
          /\ StatusRank(subs'[s].status) >= StatusRank(subs[s].status)
          /\ (subs[s].status = "draft" /\ subs'[s].status # "draft")
                => subs'[s].status = "submitted"]_vars

\* C6: a create request with status submitted, and an update request that
\* moves a submission from another status to submitted, leave submitted_at
\* set and enqueue the submission-notification task for the submission; a
\* create request with status draft leaves submitted_at null and enqueues
\* nothing.
C6_SubmitStampsAndEnqueues ==
    [][/\ \A u \in Users, req \in LifeCreateRequests :
            (CreateSubmission(u, req) /\ response' = 201)
            => IF req.status = "submitted"
               THEN /\ subs'[nextSid].submitted_at # NoTime
                    /\ taskQueue'[nextSid] = taskQueue[nextSid] + 1
               ELSE req.status \in {"draft", ABSENT}
                    => /\ subs'[nextSid].submitted_at = NoTime
                       /\ taskQueue' = taskQueue
       /\ \A u \in Users, sid \in DOMAIN subs, req \in LifeUpdateRequests :
            ( /\ subs[sid].status # "submitted"
              /\ req.status = "submitted"
              /\ UpdateSubmission(u, sid, req)
              /\ response' = 200 )
            => /\ subs'[sid].submitted_at # NoTime
               /\ taskQueue'[sid] = taskQueue[sid] + 1]_vars

\* C7: one run of send_form_submission_notification for a stored submission
\* appends exactly one form_submitted notification linked to that submission
\* for every user whose role is admin at that moment, none for any other
\* user, and leaves the earlier notifications as they were.
C7_OnePerAdmin ==
    [][\A sid \in DOMAIN taskQueue :
          (sid \in DOMAIN subs /\ send_form_submission_notification(sid))
          => LET new == (Len(notifications) + 1)..Len(notifications') IN
             /\ SubSeq(notifications', 1, Len(notifications)) = notifications
             /\ \A i \in new :
                   /\ notifications'[i].notification_type = "form_submitted"
                   /\ notifications'[i].related_object_id = sid
             /\ \A u \in Users :
                   Cardinality({i \in new : notifications'[i].recipient = u})
                      = IF role[u] = "admin" THEN 1 ELSE 0]_vars

\* C7 witness: a run made while both users were admins has notified both,
\* each once.
C7_Witness ==
    /\ Len(notifications) = 2
    /\ notifications[1].recipient # notifications[2].recipient
    /\ notifications[1].related_object_id = notifications[2].related_object_id
    /\ \A u \in Users : role[u] = "admin"

\* C8: every submission whose status is reviewed, approved or rejected has
\* reviewed_by and reviewed_at set.
C8_ReviewStamped ==
    \A s \in DOMAIN subs :
        subs[s].status \in ReviewStatuses
           => (subs[s].reviewed_by # NoUser /\ subs[s].reviewed_at # NoTime)

\* C9: a step that takes a submission with a submitter from submitted to
\* reviewed, approved or rejected creates a notification for the submitter or
\* queues the task that creates one.
C9_ReviewNotifies ==
    [][\A s \in DOMAIN subs \cap DOMAIN subs' :
          ( /\ subs[s].status = "submitted"
            /\ subs'[s].status \in ReviewStatuses
            /\ subs[s].submitted_by # NoUser )
          => \/ \E i \in (Len(notifications) + 1)..Len(notifications') :
                  /\ notifications'[i].recipient = subs[s].submitted_by
                  /\ notifications'[i].related_object_id = s
             \/ taskQueue'[s] > taskQueue[s]]_vars

\* The create requests of SpecValidation.
ValidationCreateRequests ==
    CreateRequests(LifeTemplateIds, ValidationDatas, ValidationStatuses)

\* The schema marks some field as required and the data has no entry for it,
\* or null, the empty string or an empty list.
LacksRequired(schema, data) ==
    /\ schema.has_fields
    /\ \E i \in 1..Len(schema.fields) :
          /\ schema.fields[i].required
          /\ \/ schema.fields[i].name \notin DOMAIN data
             \/ data[schema.fields[i].name] \in {Null, Str(""), List(<<>>)}

\* C10: a create request with status submitted whose data lacks a required
\* field of the template's schema is rejected; it stores no submission and
\* enqueues no notification task.
C10_RequiredRejected ==
    [][\A u \in Users, req \in ValidationCreateRequests :
          ( /\ req.status = "submitted"
            /\ req.form_template \in DOMAIN templates
            /\ LacksRequired(templates[req.form_template].schema, req.data)
            /\ CreateSubmission(u, req) )
          => ( /\ response' = 400
               /\ subs' = subs
               /\ taskQueue' = taskQueue )]_vars

\* C10 witness: the template requires the multi-value field, nothing is
\* stored, and the last create request was refused as invalid.
C10_Witness ==
    /\ response = 400
    /\ Len(templates) = 1
    /\ templates[1].schema = Schema(<<F_tags>>)
    /\ DOMAIN subs = {}
    /\ \A s \in DOMAIN taskQueue : taskQueue[s] = 0

\* The names of the fields of the schema that the data violates a rule on: a
\* required field that is not filled, or a value that fails its type's rule.
Offending(schema, data) ==
    {schema.fields[i].name : i \in
        {j \in 1..Len(schema.fields) :
            \/ /\ schema.fields[j].required
               /\ \/ schema.fields[j].name \notin DOMAIN data
                  \/ data[schema.fields[j].name] \in {Null, Str(""), List(<<>>)}
            \/ /\ schema.fields[j].name \in DOMAIN data
               /\ validate_field_value(schema.fields[j],
                                       data[schema.fields[j].name]) # ""}}

\* C11: when a create request with status submitted is validated, the error
\* mapping that is returned names every field the data violates a rule on, a
\* missing required field together with the type errors of other fields.
C11_AllViolationsNamed ==
    [][\A u \in Users, req \in ValidationCreateRequests :
          ( /\ req.form_template \in DOMAIN templates
            /\ req.status = "submitted"
            /\ CreateSubmission(u, req) )
          => LET schema == templates[req.form_template].schema IN
             schema.has_fields
                => Offending(schema, req.data)
                      \subseteq DOMAIN validate_form_data(schema, req.data)]_vars

\* C12: at most one email is ever sent for a notification, however the runs
\* of send_email_notification for it repeat, fail or interleave.
C12_AtMostOneEmail ==
    \A n \in DOMAIN outbox : outbox[n] <= 1

\* C13: once a notification is read, no later step changes its read_at or
\* its is_read; a second mark-read call in particular leaves both as the
\* first call set them.
C13_MarkReadIdempotent ==
    [][\A n \in 1..Len(notifications) :
          notifications[n].is_read
             => /\ notifications'[n].is_read
                /\ notifications'[n].read_at = notifications[n].read_at]_vars

\* C13 witness: the recipient's mark-read call was answered on a notification
\* that was read at an earlier time, and read_at still holds that time.
C13_Witness ==
    /\ response = 200
    /\ now > 0
    /\ \E n \in StoredNotifications :
          notifications[n].is_read /\ notifications[n].read_at = 0

\* C14: a step that changes a template's schema raises its version by exactly
\* one and a step that leaves the schema as it was leaves the version as it
\* was; a new template starts at version 1; the version a create or update
\* request carries changes nothing.
C14_VersionCountsSchemaChanges ==
    [][/\ \A t \in DOMAIN templates :
             templates'[t].version =
                 IF templates'[t].schema # templates[t].schema
                 THEN templates[t].version + 1
                 ELSE templates[t].version
       /\ \A t \in DOMAIN templates' \ DOMAIN templates :
             templates'[t].version = 1
       /\ \A u \in Users, t \in DOMAIN templates, req \in TemplateBodies :
             ( /\ UpdateTemplate(u, t, req)
               /\ role[u] = "admin"
               /\ req.has_schema
               /\ validate_schema(req.schema)
               /\ req.schema # templates[t].schema )
             => templates'[t].schema = req.schema]_vars

\* C14 witness: an update that carried a new schema was answered and the
\* template is at version 2.
C14_Witness ==
    /\ response = 200
    /\ \E t \in DOMAIN templates :
          templates[t].version = 2 /\ templates[t].schema = S2

\* C15: when the task broker is down, a create or update request that takes
\* a submission to submitted still leaves it stored as submitted with
\* submitted_at set, although the request fails; and no run of the
\* notification task, raising or not, changes a submission.
C15_DispatchFailureKeepsSubmitted ==
    [][/\ \A u \in Users, req \in DispatchSubmissions :
             ( /\ ~brokerUp
               /\ req.status = "submitted"
               /\ req.form_template \in DOMAIN templates
               /\ validate(req)
               /\ UniqueTogether(subs, 0, req.form_template, u)
               /\ CreateSubmission(u, req) )
             => /\ nextSid \in DOMAIN subs'
                /\ subs'[nextSid].status = "submitted"
                /\ subs'[nextSid].submitted_at # NoTime
       /\ \A u \in Users, sid \in DOMAIN subs, req \in DispatchUpdates :
             ( /\ ~brokerUp
               /\ req.status = "submitted"
               /\ CanAccess(u, sid)
               /\ UpdateSubmission(u, sid, req) )
             => /\ subs'[sid].status = "submitted"
                /\ subs'[sid].submitted_at # NoTime
       /\ \A sid \in DOMAIN taskQueue :
             send_form_submission_notification(sid) => subs' = subs]_vars

\* C15 witness: the request failed while the broker was down; the submission
\* is stored as submitted with its time, and no task was queued for it.
C15_Witness ==
    /\ response = 500
    /\ ~brokerUp
    /\ notifications = <<>>
    /\ \E s \in DOMAIN subs :
          /\ subs[s].status = "submitted"
          /\ subs[s].submitted_at # NoTime
          /\ taskQueue[s] = 0

\* C16: a run of the notification task for a stored submission creates one
\* notification per admin, each with is_emailed false, also when queueing the
\* emails fails; and an email task whose send fails leaves every
\* notification stored as it was, is_emailed false for the one it ran for.
C16_EmailFailureKeepsNotification ==
    [][/\ \A sid \in DOMAIN taskQueue :
             (sid \in DOMAIN subs /\ send_form_submission_notification(sid))
             => /\ Len(notifications') = Len(notifications) + Len(AdminUsers)
                /\ \A i \in (Len(notifications) + 1)..Len(notifications') :
                      /\ i \in StoredNotifications'
                      /\ ~notifications'[i].is_emailed
       /\ \A w \in Workers :
             (~mailUp /\ EmailSend(w))
             => /\ notifications' = notifications
                /\ removed' = removed
                /\ ~notifications'[workers[w].nid].is_emailed]_vars

\* C16 witness: both admins have their notification although no email task
\* could be queued for either.
C16_Witness ==
    /\ Len(notifications) = 2
    /\ notifications[1].recipient # notifications[2].recipient
    /\ emailQueue = {}
    /\ StoredNotifications = {1, 2}

\* C20: a mark-read or delete request for a stored notification, made by a
\* user who is not its recipient, is answered 404 and leaves the notification
\* stored with all its fields, is_read and read_at among them, as they were.
C20_OthersNotificationUntouched ==
    [][\A u \in Users, n \in StoredNotifications :
          ( /\ notifications[n].recipient # u
            /\ \/ mark_notification_read(u, n)
               \/ delete_notification(u, n) )
          => /\ response' = 404
             /\ n \in StoredNotifications'
             /\ notifications'[n] = notifications[n]]_vars

\* C20 witness: a request for the one stored, unread notification was
\* answered 404; only a user other than its recipient gets that answer.
C20_Witness ==
    /\ response = 404
    /\ StoredNotifications = {1}
    /\ ~notifications[1].is_read
    /\ notifications[1].read_at = NoTime

\* C17: authenticating a token whose issuer is not the provider's domain
\* fails, authenticates no user and creates no user, whatever keys the
\* issuer's domain serves.
C17_ForeignIssuerRejected ==
    [][\A token \in Tokens :
          ( /\ get_clerk_domain_from_token(token) # ClerkDomain
            /\ authenticate(token) )
          => /\ auth'.outcome = "failed"
             /\ accounts' = accounts]_vars

\* C18: no request that a user with role client makes to the profile or the
\* promotion endpoint changes that user's role.
C18_ClientStaysClient ==
    [][\A u \in Users :
          ( /\ role[u] = "client"
            /\ \/ promote_to_admin(u)
               \/ \E req \in ProfileRequests : UpdateProfile(u, req) )
          => role'[u] = "client"]_vars

\* C19: no two users share a clerk id or a username; authenticating a
\* verified token of a subject without a user adds exactly one user, with
\* that clerk id, role client and a username no user had; authenticating a
\* subject that has a user adds none and returns that user.
C19_OneUserPerSubject ==
    [][/\ \A i, j \in 1..Len(accounts') :
             i # j => /\ accounts'[i].clerk_id # accounts'[j].clerk_id
                      /\ accounts'[i].username # accounts'[j].username
       /\ \A token \in Tokens :
             (auth'.outcome = "user" /\ authenticate(token))
             => LET old == UserByClerkId(accounts, token.sub) IN
                IF old = 0
                THEN /\ Len(accounts') = Len(accounts) + 1
                     /\ SubSeq(accounts', 1, Len(accounts)) = accounts
                     /\ accounts'[Len(accounts')].clerk_id = token.sub
                     /\ accounts'[Len(accounts')].role = "client"
                     /\ accounts'[Len(accounts')].username
                           \notin Usernames(accounts)
                     /\ auth'.user = Len(accounts')
                ELSE /\ Len(accounts') = Len(accounts)
                     /\ auth'.user = old
                     /\ accounts'[old].clerk_id = token.sub]_vars

\* C19 witness: three subjects have a user each; two of them came with the
\* same email and the second got the name with the counter; the last call
\* returned a user that was there before.
C19_Witness ==
    /\ Len(accounts) = 3
    /\ <<"a", "n", "n">> \in Usernames(accounts)
    /\ <<"a", "n", "n", "1">> \in Usernames(accounts)
    /\ <<"a", "n", "n", "2">> \in Usernames(accounts)
    /\ auth.outcome = "user"
    /\ auth.user = 1

\* C21: the list a non-admin gets holds exactly the submissions that user
\* submitted and an admin's list holds every submission; a non-admin finds
\* no other user's submission for reading, and an update or delete request
\* of a non-admin for another user's submission is answered 404 and leaves
\* every submission as it was.
C21_OwnSubmissionsOnly ==
    [][\A u \in Users :
          /\ role[u] = "admin" => get_queryset(u) = DOMAIN subs
          /\ role[u] # "admin"
                => /\ \A s \in DOMAIN subs :
                         s \in get_queryset(u) <=> subs[s].submitted_by = u
                   /\ \A s \in DOMAIN subs :
                         subs[s].submitted_by # u
                            => /\ ~CanAccess(u, s)
                               /\ \A req \in MultiUpdateRequests :
                                     UpdateSubmission(u, s, req)
                                        => response' = 404 /\ subs' = subs
                               /\ DeleteSubmission(u, s)
                                     => response' = 404 /\ subs' = subs]_vars

\* C21 witness: both users have a submission of their own, so the client's
\* list is a proper, non-empty part of the admin's, and the client's request
\* for the admin's submission was just answered 404.
C21_Witness ==
    /\ response = 404
    /\ Cardinality(DOMAIN subs) = 2
    /\ \E s \in DOMAIN subs : get_queryset("u_client") = {s}
    /\ \E s \in DOMAIN subs : subs[s].submitted_by = "u_admin"
    /\ get_queryset("u_admin") = DOMAIN subs

\* User u has a submission to template t that was submitted and is now
\* submitted, reviewed, approved or rejected.
AlreadySubmitted(u, t) ==
    \E s \in DOMAIN subs :
        /\ subs[s].form_template = t
        /\ subs[s].submitted_by = u
        /\ subs[s].submitted_at # NoTime
        /\ subs[s].status \in {"submitted"} \cup ReviewStatuses

\* C22: the public forms list of a user holds exactly the active templates,
\* less those that forbid multiple submissions and that the user has already
\* submitted, also after that submission was reviewed, approved or rejected.
C22_PublicFormsList ==
    \A u \in Users :
        public_forms(u) =
            {t \in DOMAIN templates :
                /\ templates[t].status = "active"
                /\ (templates[t].allow_multiple_submissions
                      \/ ~AlreadySubmitted(u, t))}

\* C24: a create request with status submitted that carries a non-empty
\* value for a number field with a minimum and a maximum, and nothing else
\* that could be refused, is accepted exactly when the value parses as a
\* number n with min <= n <= max; a value that does not parse is refused
\* with the message 'must be a number'.
C24_NumberWithinBounds ==
    [][\A u \in Users, req \in ValidationCreateRequests :
          ( /\ req.status = "submitted"
            /\ req.form_template \in DOMAIN templates
            /\ DOMAIN subs = {}
            /\ templates[req.form_template].schema.has_fields
            /\ ~LacksRequired(templates[req.form_template].schema, req.data)
            /\ "age" \in DOMAIN req.data
            /\ req.data["age"] \notin {Null, Str("")}
            /\ LET fields == templates[req.form_template].schema.fields
                   i == get_field_config(fields, "age") IN
               /\ i # 0
               /\ fields[i].type = "number"
               /\ fields[i].has_min /\ fields[i].has_max
               /\ \A k \in DOMAIN req.data \ {"age"} :
                     \/ get_field_config(fields, k) = 0
                     \/ fields[get_field_config(fields, k)].type = "text"
            /\ CreateSubmission(u, req) )
          => LET fields == templates[req.form_template].schema.fields
                 field == fields[get_field_config(fields, "age")]
                 p == ParseFloat(req.data["age"])
                 errors == validate_form_data(
                               templates[req.form_template].schema, req.data)
             IN /\ response' = 201
                      <=> ( /\ p.ok /\ ~p.nan
                            /\ field.min <= p.n /\ p.n <= field.max )
                /\ ~p.ok => /\ response' = 400
                            /\ "age" \in DOMAIN errors
                            /\ errors["age"] = "must be a number"]_vars

\* C23: every submission that cleanup_old_drafts removes is, at the moment
\* it is removed, a draft that was last updated more than 30 days ago, also
\* when a request edited or submitted it while the task was running.
C23_OnlyOldDraftsDeleted ==
    [][\A s \in DOMAIN subs \ DOMAIN subs' :
          /\ subs[s].status = "draft"
          /\ subs[s].updated_at < now - DraftRetention]_vars

\* C25: whenever a step puts a submission into status submitted, by a create
\* request or by an update of a stored submission, its data fills every
\* required field of its template's schema.
C25_SubmittedHasRequired ==
    [][\A s \in DOMAIN subs' :
          ( /\ subs'[s].status = "submitted"
            /\ (s \in DOMAIN subs => subs[s].status # "submitted") )
          => ~LacksRequired(templates'[subs'[s].form_template].schema,
                            subs'[s].data)]_vars

\* C26: no submission ever has its notification task enqueued a second
\* time, and a submitted_at that is set is never changed, through any
\* sequence of status updates and any interleaving of two update requests.
C26_OneStampOneTask ==
    [][/\ \A s \in DOMAIN taskQueue : taskQueue'[s] <= 1
       /\ \A s \in DOMAIN subs \cap DOMAIN subs' :
             subs[s].submitted_at # NoTime
                => subs'[s].submitted_at = subs[s].submitted_at]_vars

\* C27: whenever no update request for a template is in progress, its
\* version is one more than the number of updates that changed its stored
\* schema, also when such updates ran at the same time.
C27_NoLostIncrement ==
    \A t \in DOMAIN templates :
        (\A c \in Callers : calls[c].pc = "idle")
           => templates[t].version = 1 + schemaChanges[t]

\* C28: in every state reached through mark-read and mark-all-read requests
\* a notification is flagged as read exactly when its read_at is set, and a
\* read_at that is set is never changed, however the requests interleave.
C28_ReadAtFixed ==
    [][\A n \in 1..Len(notifications') :
          /\ notifications'[n].is_read
                <=> notifications'[n].read_at # NoTime
          /\ (n <= Len(notifications) /\ notifications[n].read_at # NoTime)
                => notifications'[n].read_at = notifications[n].read_at]_vars

\* C29: after an update request that was answered 200 and that carries no
\* schema, or the schema the template already has, the stored template holds
\* the values the request carries for its other fields.
C29_NonSchemaUpdatePersisted ==
    [][\A u \in Users, t \in DOMAIN templates, req \in TemplateBodies :
          ( /\ ~req.has_schema \/ req.schema = templates[t].schema
            /\ UpdateTemplate(u, t, req)
            /\ response' = 200 )
          => /\ req.has_allow
                   => templates'[t].allow_multiple_submissions
                         = req.allow_multiple_submissions
             /\ req.has_status => templates'[t].status = req.status]_vars

\* C30: every stored template has a schema with a list of fields that is not
\* empty, in which no two fields have the same name, every type is one of the
\* declared field types, and every select, multiselect and radio field has
\* options.
C30_StoredSchemaWellFormed ==
    \A t \in DOMAIN templates :
        LET schema == templates[t].schema IN
        /\ schema.has_fields
        /\ Len(schema.fields) > 0
        /\ \A i, j \in 1..Len(schema.fields) :
              i # j => schema.fields[i].name # schema.fields[j].name
        /\ \A i \in 1..Len(schema.fields) :
              /\ schema.fields[i].type \in FIELD_TYPES
              /\ schema.fields[i].type \in {"select", "multiselect", "radio"}
                    => Len(schema.fields[i].options) > 0

TypeOK ==
    /\ nextSid \in 1..(MaxSubs + MaxLifeSubs + 1)
    /\ now \in 0..(MaxTime + DraftRetention + 1)
    /\ DOMAIN subs \subseteq 1..(MaxSubs + MaxLifeSubs)

====
